---------------------------- MODULE Spec2Model ----------------------------
(***************************************************************************)
(* A model of zearch (src/src/lib.rs): the in-memory word index, the       *)
(* per-query candidate generation and the ranking-rule cascade driven by   *)
(* Index::search.                                                          *)
(*                                                                         *)
(* Text is a sequence of characters; a character is a one-element name     *)
(* ("a", "A", "e_acute", "!", " ").  Document ids are 0-based as in the    *)
(* code; TLA+ sequences are 1-based, so documents[id + 1] is document id.  *)
(* A RoaringBitmap is the set of the ids it holds.                         *)
(***************************************************************************)
EXTENDS Integers, Sequences, FiniteSets, TLC

VARIABLES
    overflow_checks,       \* build profile: are integer overflow checks compiled in
    documents,             \* Index.documents
    fst,                   \* Index.fst: sequence of [word, id], keys strictly increasing
    bitmaps,               \* Index.bitmaps
    input,                 \* Search.input
    limit,                 \* Search.limit
    rules,                 \* Search.ranking_rules
    candidates,            \* search(): candidates
    ranking_rules,         \* search(): the boxed stages and their state
    current_ranking_rule,  \* search(): the cursor
    res,                   \* search(): the buckets pushed so far
    ret,                   \* the value search() returned (document ids, in order)
    stages_ran,            \* has the running call evaluated next!() at all
    pc                     \* "new" | "idle" | "loop" | "done" | "panicked" | "candidates"

vars == <<overflow_checks, documents, fst, bitmaps, input, limit, rules, candidates,
          ranking_rules, current_ranking_rule, res, ret, stages_ran, pc>>

-----------------------------------------------------------------------------
(* Bounds of the model. *)

MaxDocs == 2

MaxLimit == 2

MaxRules == 2

\* More iterations than any search of the model takes: the fuel of RunLoop.
MaxIterations == 200

\* How far above the limit of a call the prefix property is compared.
MaxExtra == 2

-----------------------------------------------------------------------------
(* Small arithmetic and sequence helpers. *)

Min(a, b) == IF a <= b THEN a ELSE b

Range(s) == {s[i] : i \in 1..Len(s)}

RECURSIVE SumSeq(_)
SumSeq(s) == IF s = <<>> THEN 0 ELSE Head(s) + SumSeq(Tail(s))

RECURSIVE UnionSeq(_)
UnionSeq(s) == IF s = <<>> THEN {} ELSE Head(s) \cup UnionSeq(Tail(s))

\* The elements of a set of integers in ascending order (RoaringBitmap::iter).
RECURSIVE Ascending(_)
Ascending(S) ==
    IF S = {} THEN <<>>
    ELSE LET m == CHOOSE x \in S : \A y \in S : x <= y
         IN  <<m>> \o Ascending(S \ {m})

Take(s, n) == SubSeq(s, 1, Min(n, Len(s)))

IsPrefixOf(p, s) == Len(p) <= Len(s) /\ SubSeq(s, 1, Len(p)) = p

-----------------------------------------------------------------------------
(* Characters and normalize (lib.rs 251-263). *)

Whitespace == {" "}

\* char::to_ascii_lowercase: only ASCII upper case letters change.
ToAsciiLowercase(c) ==
    CASE c = "A" -> "a"
      [] c = "B" -> "b"
      [] OTHER -> c

\* The ASCII lower case letters the model uses; everything that survives
\* normalize is one of them.
Letters == {"a", "b", "c", "d", "e"}

\* The match of normalize on one character: <<>> for None, <<x>> for Some(x).
\* Lower case accented letters fold to their base letter; an upper case
\* accented letter is left alone by to_ascii_lowercase and, not being ASCII
\* graphic, is dropped like punctuation and every other non-ASCII character.
NormalizeChar(c) ==
    LET l == ToAsciiLowercase(c)
    IN  CASE l = "a_grave" -> <<"a">>
          [] l = "e_acute" -> <<"e">>
          [] l \in Letters -> <<l>>
          [] OTHER -> <<>>

RECURSIVE normalize(_)
normalize(s) ==
    IF s = <<>> THEN <<>> ELSE NormalizeChar(Head(s)) \o normalize(Tail(s))

\* str::split_whitespace: the maximal runs of non-whitespace characters.
RECURSIVE SplitFrom(_, _)
SplitFrom(s, cur) ==
    IF s = <<>> THEN (IF cur = <<>> THEN <<>> ELSE <<cur>>)
    ELSE IF Head(s) \in Whitespace
         THEN (IF cur = <<>> THEN <<>> ELSE <<cur>>) \o SplitFrom(Tail(s), <<>>)
         ELSE SplitFrom(Tail(s), Append(cur, Head(s)))

split_whitespace(s) == SplitFrom(s, <<>>)

\* Byte order of the characters of normalized words.
CharCode(c) ==
    CASE c = "a" -> 97
      [] c = "b" -> 98
      [] c = "c" -> 99
      [] c = "d" -> 100
      [] c = "e" -> 101

\* String::cmp on normalized words: lexicographic, a proper prefix first.
RECURSIVE StrLess(_, _)
StrLess(x, y) ==
    IF y = <<>> THEN FALSE
    ELSE IF x = <<>> THEN TRUE
    ELSE IF Head(x) = Head(y) THEN StrLess(Tail(x), Tail(y))
    ELSE CharCode(Head(x)) < CharCode(Head(y))

-----------------------------------------------------------------------------
(* Edit distances.  One row of the dynamic program at a time; row entry     *)
(* j + 1 is the distance between the first i characters of a and the first  *)
(* j of b.  With transpositions the recurrence is the restricted            *)
(* Damerau-Levenshtein (optimal string alignment) distance.                 *)

RECURSIVE EditRow(_, _, _, _, _, _, _)
EditRow(a, b, i, prev2, prev, acc, transpositions) ==
    IF Len(acc) = Len(b) + 1 THEN acc
    ELSE LET j    == Len(acc)
             cost == IF a[i] = b[j] THEN 0 ELSE 1
             base == Min(Min(prev[j + 1] + 1, acc[j] + 1), prev[j] + cost)
             v    == IF transpositions /\ i > 1 /\ j > 1
                        /\ a[i] = b[j - 1] /\ a[i - 1] = b[j]
                     THEN Min(base, prev2[j - 1] + 1)
                     ELSE base
         IN  EditRow(a, b, i, prev2, prev, Append(acc, v), transpositions)

RECURSIVE EditRows(_, _, _, _, _, _)
EditRows(a, b, i, prev2, prev, transpositions) ==
    IF Len(prev) = Len(b) + 1 /\ i <= Len(a)
    THEN EditRows(a, b, i + 1, prev,
                  EditRow(a, b, i, prev2, prev, <<i>>, transpositions),
                  transpositions)
    ELSE prev[Len(b) + 1]

EditDistance(a, b, transpositions) ==
    LET row0 == [j \in 1..(Len(b) + 1) |-> j - 1]
    IN  EditRows(a, b, 1, row0, row0, transpositions)

\* text_distance::DamerauLevenshtein { restricted: true }.distance()
DamerauLevenshtein(src, tar) == EditDistance(src, tar, TRUE)

\* fst::automaton::Levenshtein::new(query, distance): accepts the keys within
\* plain Levenshtein distance (no transposition) of the query.
LevAccepts(query, distance, key) == EditDistance(query, key, FALSE) <= distance

\* Levenshtein::starts_with(): accepts a key when one of its prefixes is
\* accepted by the automaton.
LevStartsWithAccepts(query, distance, key) ==
    \E n \in 0..Len(key) : LevAccepts(query, distance, SubSeq(key, 1, n))

-----------------------------------------------------------------------------
(* Index::construct (lib.rs 21-54). *)

\* lib.rs 22-30: the (id, normalized word) pairs of one document, then of all.
RECURSIVE DocWords(_, _)
DocWords(id, tokens) ==
    IF tokens = <<>> THEN <<>>
    ELSE <<[id |-> id, word |-> normalize(Head(tokens))]>> \o DocWords(id, Tail(tokens))

RECURSIVE CorpusWords(_, _)
CorpusWords(docs, n) ==
    IF n > Len(docs) THEN <<>>
    ELSE DocWords(n - 1, split_whitespace(docs[n])) \o CorpusWords(docs, n + 1)

\* lib.rs 31: sort by word only.  The sort is unstable, so the order of the
\* pairs of one word is unspecified; they only ever reach a bitmap, which is
\* a set, so one order stands for all.
RECURSIVE InsertByWord(_, _)
InsertByWord(sorted, p) ==
    IF sorted = <<>> THEN <<p>>
    ELSE IF StrLess(p.word, Head(sorted).word)
         THEN <<p>> \o sorted
         ELSE <<Head(sorted)>> \o InsertByWord(Tail(sorted), p)

\* Mutant of SortByWord: the pairs are left in corpus order.
SortByWord_unsorted(ps) == ps

RECURSIVE SortByWord(_)
SortByWord(ps) ==
    IF ps = <<>> THEN <<>>
    ELSE InsertByWord(SortByWord(SubSeq(ps, 1, Len(ps) - 1)), ps[Len(ps)])

\* Mutant of BuildScan: a repeated word replaces the bitmap's content by the
\* new id instead of inserting it.
RECURSIVE BuildScan_overwrite(_, _)
BuildScan_overwrite(words, st) ==
    IF words = <<>> THEN st
    ELSE LET p == Head(words)
             n == Len(st.bitmaps)
         IN  BuildScan_overwrite(Tail(words),
                 IF <<p.word>> # st.last
                 THEN [last    |-> <<p.word>>,
                       bitmaps |-> Append(st.bitmaps, {p.id}),
                       fst     |-> Append(st.fst, [word |-> p.word, id |-> n])]
                 ELSE [last    |-> <<p.word>>,
                       bitmaps |-> [st.bitmaps EXCEPT ![n] = {p.id}],
                       fst     |-> st.fst])

\* lib.rs 38-47: the scan of the sorted pairs.  st.last is <<>> for None and
\* <<word>> for Some(word).
RECURSIVE BuildScan(_, _)
BuildScan(words, st) ==
    IF words = <<>> THEN st
    ELSE LET p == Head(words)
             n == Len(st.bitmaps)
         IN  BuildScan(Tail(words),
                 IF <<p.word>> # st.last
                 THEN [last    |-> <<p.word>>,
                       bitmaps |-> Append(st.bitmaps, {p.id}),
                       fst     |-> Append(st.fst, [word |-> p.word, id |-> n])]
                 ELSE [last    |-> <<p.word>>,
                       bitmaps |-> [st.bitmaps EXCEPT ![n] = @ \cup {p.id}],
                       fst     |-> st.fst])

construct(docs) ==
    BuildScan(SortByWord(CorpusWords(docs, 1)),
              [last |-> <<>>, bitmaps |-> <<>>, fst |-> <<>>])

-----------------------------------------------------------------------------
(* WordCandidate and Index::get_candidates (lib.rs 151-233). *)

\* lib.rs 207-215
NewWordCandidate(original, normalized, index) ==
    [original |-> original, normalized |-> normalized, index |-> index,
     typos |-> <<{}, {}, {}, {}>>]

\* lib.rs 219-232.  typos[d] of the code is typos[d + 1] here.
insert_with_maybe_typo(cand, other, bitmap) ==
    LET tar      == SubSeq(other, 1, Min(Len(other), Len(cand.normalized)))
        distance == Min(DamerauLevenshtein(cand.normalized, tar), 3)
    IN  [cand EXCEPT !.typos[distance + 1] = @ \cup bitmap]

\* lib.rs 171-176 and 179-184: the stream of matching keys, in key order.
RECURSIVE InsertMatches(_, _, _, _, _, _)
InsertMatches(cand, keys, bms, typo, prefix, k) ==
    IF k > Len(keys) THEN cand
    ELSE LET key     == keys[k].word
             matches == IF prefix
                        THEN LevStartsWithAccepts(cand.normalized, typo, key)
                        ELSE LevAccepts(cand.normalized, typo, key)
         IN  InsertMatches(
                 IF matches
                 THEN insert_with_maybe_typo(cand, key, bms[keys[k].id + 1])
                 ELSE cand,
                 keys, bms, typo, prefix, k + 1)

\* Mutant of QueryWordsOf: words normalized to nothing are kept.
RECURSIVE QueryWordsOf_unfiltered(_)
QueryWordsOf_unfiltered(tokens) ==
    IF tokens = <<>> THEN <<>>
    ELSE <<<<Head(tokens), normalize(Head(tokens))>>>>
         \o QueryWordsOf_unfiltered(Tail(tokens))

\* lib.rs 152-157: the surviving query words as <<word, normalized>>.
RECURSIVE QueryWordsOf(_)
QueryWordsOf(tokens) ==
    IF tokens = <<>> THEN <<>>
    ELSE LET n == normalize(Head(tokens))
         IN  (IF n # <<>> THEN <<<<Head(tokens), n>>>> ELSE <<>>)
             \o QueryWordsOf(Tail(tokens))

QueryWords(text) == QueryWordsOf(split_whitespace(text))

\* Mutant of TypoBudget: the cap of 3 typos is missing.
TypoBudget_uncapped(normalized) == Len(normalized) \div 3

\* lib.rs 164-165: one typo every 3 letters, at most 3.
TypoBudget(normalized) == Min(Len(normalized) \div 3, 3)

\* Mutant of CandidateOf: the prefix search is run for every word.
CandidateOf_prefix_always(words, index, keys, bms) ==
    LET w == words[index + 1]
    IN  InsertMatches(NewWordCandidate(w[1], w[2], index), keys, bms,
                      TypoBudget(w[2]), TRUE, 1)

\* lib.rs 160-188: the candidate of the word at 0-based position index.
CandidateOf(words, index, keys, bms) ==
    LET w == words[index + 1]
    IN  InsertMatches(NewWordCandidate(w[1], w[2], index), keys, bms,
                      TypoBudget(w[2]), index = Len(words) - 1, 1)

\* Mutant of get_candidates: the candidates are returned last word first.
get_candidates_reversed(keys, bms, text) ==
    LET words == QueryWords(text)
    IN  [i \in 1..Len(words) |-> CandidateOf(words, Len(words) - i, keys, bms)]

get_candidates(keys, bms, text) ==
    LET words == QueryWords(text)
    IN  [i \in 1..Len(words) |-> CandidateOf(words, i - 1, keys, bms)]

\* Mutants of cleanup: nothing is subtracted; only the distance-0 bitmap is.
cleanup_nothing(used, cands) == cands

cleanup_exact_only(used, cands) ==
    [c \in 1..Len(cands) |->
        [cands[c] EXCEPT !.typos[1] = @ \ used]]

\* Index::cleanup (lib.rs 143-149)
cleanup(used, cands) ==
    [c \in 1..Len(cands) |->
        [cands[c] EXCEPT !.typos = [d \in 1..4 |-> cands[c].typos[d] \ used]]]

\* Every document id still held by a candidate, in any distance bitmap.
AllTypos(cand) == UnionSeq(cand.typos)

AllCandidates(cands) == UNION {AllTypos(cands[c]) : c \in 1..Len(cands)}

-----------------------------------------------------------------------------
(* The ranking stages (mod ranking_rules: word, typo, exact).  A stage is a *)
(* record: kind, started (has next been called since the stage was last     *)
(* exhausted), pos (Word: the number of query words still in the            *)
(* conjunction; Typo: the total distance of the current level), universe    *)
(* (the selection the coarser stage handed down at the last next, less what *)
(* cleanup purged) and exact (Exact: the documents holding a query word     *)
(* verbatim).                                                               *)

Word == "Word"

Typo == "Typo"

Exact == "Exact"

RankingRule == {Word, Typo, Exact}

\* lib.rs 66-76: one stage per configured rule.
NewStage(kind, cands) ==
    [kind |-> kind, started |-> FALSE,
     pos |-> IF kind = Word THEN Len(cands) ELSE 0,
     universe |-> {}, exact |-> {}]

\* The documents matching every one of the first n query words.
Conjunction(cands, n) ==
    IF n = 0 THEN {}
    ELSE {d \in AllTypos(cands[1]) : \A c \in 1..n : d \in AllTypos(cands[c])}

\* The smallest distance at which a candidate holds the document (0 if none).
MinDistance(cand, d) ==
    IF d \in AllTypos(cand)
    THEN (CHOOSE k \in 1..4 : d \in cand.typos[k]
                              /\ \A j \in 1..(k - 1) : d \notin cand.typos[j]) - 1
    ELSE 0

\* The total edit distance of a document across the query's words, at most 3.
TotalDistance(cands, d) ==
    Min(3, SumSeq([c \in 1..Len(cands) |-> MinDistance(cands[c], d)]))

\* RankingRuleImpl::current_results
current_results(stage, cands) ==
    CASE stage.kind = Word -> stage.universe \cap Conjunction(cands, stage.pos)
      [] stage.kind = Typo ->
            {d \in stage.universe \cap AllCandidates(cands) :
                TotalDistance(cands, d) = stage.pos}
      [] stage.kind = Exact -> stage.universe \cap stage.exact

\* RankingRuleImpl::cleanup
stage_cleanup(stage, used) ==
    [stage EXCEPT !.universe = @ \ used, !.exact = @ \ used]

\* The documents holding one of the query's normalized words verbatim
\* (a lookup of each word in the index, which next receives).
ExactDocs(keys, bms, cands) ==
    UNION {bms[keys[k].id + 1] :
             k \in {k \in 1..Len(keys) :
                      \E c \in 1..Len(cands) : keys[k].word = cands[c].normalized}}

\* The total distances found in the selection handed down that the Typo
\* stage has not yet visited since it was last exhausted.
TypoLevels(stage, coarser, cands) ==
    {TotalDistance(cands, d) : d \in coarser \cap AllCandidates(cands)}
        \ (IF stage.started THEN 0..stage.pos ELSE {})

\* What a stage is handed down by prev, <<>> for None and <<stage>> for
\* Some(stage): the current selection of the coarser stage, or every
\* candidate document when there is none.
HandedDown(prev, cands) ==
    IF prev = <<>> THEN AllCandidates(cands) ELSE current_results(prev[1], cands)

\* RankingRuleImpl::next.  The result is the control flow, the bucket of a
\* break, and the stage after the call.
stage_next(stage, prev, cands, exactDocs) ==
    LET coarser == HandedDown(prev, cands) IN
    CASE stage.kind = Word ->
            IF ~stage.started
            THEN [flow |-> "continue", bucket |-> {},
                  stage |-> [stage EXCEPT !.started = TRUE, !.universe = coarser]]
            ELSE IF stage.pos > 1
            THEN [flow |-> "continue", bucket |-> {},
                  stage |-> [stage EXCEPT !.pos = @ - 1, !.universe = coarser]]
            ELSE [flow |-> "break", bucket |-> {},
                  stage |-> NewStage(Word, cands)]
      [] stage.kind = Typo ->
            LET levels == TypoLevels(stage, coarser, cands)
            IN  IF levels # {}
                THEN [flow |-> "continue", bucket |-> {},
                      stage |-> [stage EXCEPT
                                   !.started = TRUE,
                                   !.pos = CHOOSE l \in levels : \A m \in levels : l <= m,
                                   !.universe = coarser]]
                ELSE [flow |-> "break", bucket |-> {},
                      stage |-> NewStage(Typo, cands)]
      [] stage.kind = Exact ->
            LET e == coarser \cap exactDocs
                s == [stage EXCEPT !.started = TRUE, !.universe = coarser,
                                   !.exact = exactDocs]
            IN  [flow |-> "break",
                 bucket |-> IF e # {} THEN e ELSE coarser,
                 stage |-> s]

-----------------------------------------------------------------------------
(* The driver loop of Index::search (lib.rs 79-141) on a record s of its    *)
(* locals: candidates, ranking_rules, current_ranking_rule, res.            *)

\* lib.rs 97: the accumulated bucket size.
BucketsSize(buckets) ==
    SumSeq([i \in 1..Len(buckets) |-> Cardinality(buckets[i])])

\* lib.rs 85: ranking_rules[current_ranking_rule] is out of bounds.
IndexOutOfBounds(s) == s.current_ranking_rule >= Len(s.ranking_rules)

\* lib.rs 89: current_ranking_rule - 1 underflows usize.
SubOverflows(s) == s.current_ranking_rule = 0

\* lib.rs 89: ranking_rules.get(current_ranking_rule - 1), <<>> for None and
\* <<stage>> for Some(stage).  At cursor 0 the subtraction, where it does not
\* panic, wraps to usize::MAX, which is past the end of the list: None.
CoarserStage(s) ==
    IF s.current_ranking_rule = 0
    THEN <<>>
    ELSE <<s.ranking_rules[s.current_ranking_rule]>>

\* lib.rs 81-95: next!()
NextOut(s) ==
    stage_next(s.ranking_rules[s.current_ranking_rule + 1], CoarserStage(s),
               s.candidates, ExactDocs(fst, bitmaps, s.candidates))

\* Mutant of PushBucket: the index is queried again, with a prefix search for
\* every word, before the bucket is cleaned up and pushed.
PushBucket_requery(s, out, bucket) ==
    [candidates |->
        cleanup(UnionSeq(s.res) \cup bucket,
                [c \in 1..Len(s.candidates) |->
                    InsertMatches(NewWordCandidate(s.candidates[c].original,
                                                   s.candidates[c].normalized, c - 1),
                                  fst, bitmaps,
                                  TypoBudget(s.candidates[c].normalized), TRUE, 1)]),
     ranking_rules |->
        [i \in 1..Len(s.ranking_rules) |->
            stage_cleanup(IF i = s.current_ranking_rule + 1
                          THEN out.stage ELSE s.ranking_rules[i], bucket)],
     current_ranking_rule |-> s.current_ranking_rule,
     res |-> Append(s.res, bucket)]

\* Mutant of PushBucket: only the stage at the cursor is cleaned up.
PushBucket_current_only(s, out, bucket) ==
    [candidates |-> cleanup(bucket, s.candidates),
     ranking_rules |->
        [i \in 1..Len(s.ranking_rules) |->
            IF i = s.current_ranking_rule + 1
            THEN stage_cleanup(out.stage, bucket) ELSE s.ranking_rules[i]],
     current_ranking_rule |-> s.current_ranking_rule,
     res |-> Append(s.res, bucket)]

\* lib.rs 107-109 and 126-128: clean up the bucket everywhere and push it.
PushBucket(s, out, bucket) ==
    [candidates |-> cleanup(bucket, s.candidates),
     ranking_rules |->
        [i \in 1..Len(s.ranking_rules) |->
            stage_cleanup(IF i = s.current_ranking_rule + 1
                          THEN out.stage ELSE s.ranking_rules[i], bucket)],
     current_ranking_rule |-> s.current_ranking_rule,
     res |-> Append(s.res, bucket)]

\* lib.rs 104-109
ContinueFinest(s, out) == PushBucket(s, out, current_results(out.stage, s.candidates))

\* lib.rs 110-113
ContinueAdvance(s, out) ==
    [s EXCEPT !.ranking_rules[s.current_ranking_rule + 1] = out.stage,
              !.current_ranking_rule = @ + 1]

\* Mutant of BreakEmptyBack: the empty bucket is not pushed.
BreakEmptyBack_unpushed(s, out) ==
    [s EXCEPT !.ranking_rules[s.current_ranking_rule + 1] = out.stage,
              !.current_ranking_rule = @ - 1]

\* lib.rs 121-122
BreakEmptyBack(s, out) ==
    [s EXCEPT !.ranking_rules[s.current_ranking_rule + 1] = out.stage,
              !.current_ranking_rule = @ - 1,
              !.res = Append(@, out.bucket)]

\* lib.rs 118-120
BreakEmptyStop(s, out) ==
    [s EXCEPT !.ranking_rules[s.current_ranking_rule + 1] = out.stage]

\* lib.rs 125-129
BreakBucket(s, out) == PushBucket(s, out, out.bucket)

\* lib.rs 101-130: which arm of the match an outcome of next!() takes.
Arm(s, out) ==
    IF out.flow = "continue"
    THEN (IF s.current_ranking_rule = Len(s.ranking_rules) - 1
          THEN "continue_finest" ELSE "continue_advance")
    ELSE IF out.bucket = {}
    THEN (IF s.current_ranking_rule = 0 THEN "break_stop" ELSE "break_back")
    ELSE "break_bucket"

\* Mutant of Flatten: the buckets in reverse emission order.
RECURSIVE Flatten_reversed(_)
Flatten_reversed(buckets) ==
    IF buckets = <<>> THEN <<>>
    ELSE Flatten_reversed(Tail(buckets)) \o Ascending(Head(buckets))

\* Mutant of Flatten: the ids of a bucket in descending order.
RECURSIVE Flatten_descending(_)
Flatten_descending(buckets) ==
    IF buckets = <<>> THEN <<>>
    ELSE LET up == Ascending(Head(buckets))
         IN  [i \in 1..Len(up) |-> up[Len(up) + 1 - i]]
             \o Flatten_descending(Tail(buckets))

\* lib.rs 133-138: flatten the buckets in emission order, each in id order.
RECURSIVE Flatten(_)
Flatten(buckets) ==
    IF buckets = <<>> THEN <<>>
    ELSE Ascending(Head(buckets)) \o Flatten(Tail(buckets))

\* Mutants of Collect: no truncation; the union of the buckets in id order.
Collect_untruncated(buckets, lim, docs) ==
    LET ids == Flatten(buckets)
    IN  [i \in 1..Len(ids) |-> [id |-> ids[i], text |-> docs[ids[i] + 1]]]

Collect_merged(buckets, lim, docs) ==
    LET ids == Take(Ascending(UnionSeq(buckets)), lim)
    IN  [i \in 1..Len(ids) |-> [id |-> ids[i], text |-> docs[ids[i] + 1]]]

\* lib.rs 133-140: flatten, resolve the ids to documents, take limit.
Collect(buckets, lim, docs) ==
    LET ids == Take(Flatten(buckets), lim)
    IN  [i \in 1..Len(ids) |-> [id |-> ids[i], text |-> docs[ids[i] + 1]]]

\* lib.rs 97-131: one pass through the loop on r = [s, pc], the locals and
\* where the call is; a call that has left the loop stays as it is.
StepLoop(r, lim, checks) ==
    IF r.pc # "loop" THEN r
    ELSE IF BucketsSize(r.s.res) >= lim
    THEN [r EXCEPT !.pc = "done"]
    ELSE IF IndexOutOfBounds(r.s) \/ (SubOverflows(r.s) /\ checks)
    THEN [r EXCEPT !.pc = "panicked"]
    ELSE LET out == NextOut(r.s)
             arm == Arm(r.s, out)
         IN  CASE arm = "continue_finest" -> [r EXCEPT !.s = ContinueFinest(r.s, out)]
               [] arm = "continue_advance" -> [r EXCEPT !.s = ContinueAdvance(r.s, out)]
               [] arm = "break_back" -> [r EXCEPT !.s = BreakEmptyBack(r.s, out)]
               [] arm = "break_bucket" -> [r EXCEPT !.s = BreakBucket(r.s, out)]
               [] arm = "break_stop" -> [s |-> BreakEmptyStop(r.s, out), pc |-> "done"]

\* n passes through the loop, one after the other (the first half of them,
\* then the rest).
RECURSIVE Iterations(_, _, _, _)
Iterations(r, lim, checks, n) ==
    IF r.pc # "loop" \/ n = 0 THEN r
    ELSE IF n = 1 THEN StepLoop(r, lim, checks)
    ELSE Iterations(Iterations(r, lim, checks, n \div 2), lim, checks, n - n \div 2)

\* lib.rs 97-141 run to its end from s: the outcome of one call.  A call
\* still in the loop when the fuel is spent is reported as "loop".
RunLoop(s, lim, checks, fuel) ==
    LET r == Iterations([s |-> s, pc |-> "loop"], lim, checks, fuel)
    IN  [pc |-> r.pc,
         ret |-> IF r.pc = "done" THEN Collect(r.s.res, lim, documents) ELSE <<>>]

\* lib.rs 56-79: the locals of search() when the loop is entered.
EnterLoop(cands, rs) ==
    [candidates |-> cands,
     ranking_rules |-> [i \in 1..Len(rs) |-> NewStage(rs[i], cands)],
     current_ranking_rule |-> 0,
     res |-> <<>>]

\* Index::search as a function of its arguments, on the index of the state.
RunSearch(text, lim, rs, checks) ==
    LET cands == get_candidates(fst, bitmaps, text)
    IN  IF Len(cands) = 0
        THEN [pc |-> "done", ret |-> <<>>]
        ELSE RunLoop(EnterLoop(cands, rs), lim, checks, MaxIterations)

-----------------------------------------------------------------------------
(* The inputs of the model. *)

\* "abd abc", "ab cd", "Abcd !"
DocPool ==
    { <<"a", "b", "d", " ", "a", "b", "c">>,
      <<"a", "b", " ", "c", "d">>,
      <<"A", "b", "c", "d", " ", "!">> }

\* "abc", "abc cd", "abc cd e", "ab", "ab abc", "!", ""
QueryPool ==
    { <<"a", "b", "c">>,
      <<"a", "b", "c", " ", "c", "d">>,
      <<"a", "b", "c", " ", "c", "d", " ", "e">>,
      <<"a", "b">>,
      <<"a", "b", " ", "a", "b", "c">>,
      <<"!">>,
      <<>> }

RECURSIVE SeqsUpTo(_, _)
SeqsUpTo(S, n) ==
    IF n = 0 THEN {<<>>}
    ELSE LET shorter == SeqsUpTo(S, n - 1)
         IN  shorter \cup {Append(q, x) : q \in shorter, x \in S}

Corpora == SeqsUpTo(DocPool, MaxDocs)

RuleLists == SeqsUpTo(RankingRule, MaxRules)

-----------------------------------------------------------------------------
(* The state machine. *)

Locals == [candidates |-> candidates, ranking_rules |-> ranking_rules,
           current_ranking_rule |-> current_ranking_rule, res |-> res]

SetLocals(s) ==
    /\ candidates' = s.candidates
    /\ ranking_rules' = s.ranking_rules
    /\ current_ranking_rule' = s.current_ranking_rule
    /\ res' = s.res

Init ==
    /\ overflow_checks \in BOOLEAN
    /\ documents = <<>>
    /\ fst = <<>>
    /\ bitmaps = <<>>
    /\ input = <<>>
    /\ limit = 0
    /\ rules = <<>>
    /\ candidates = <<>>
    /\ ranking_rules = <<>>
    /\ current_ranking_rule = 0
    /\ res = <<>>
    /\ ret = <<>>
    /\ stages_ran = FALSE
    /\ pc = "new"

\* Index::construct
Construct(docs) ==
    /\ pc = "new"
    /\ LET built == construct(docs)
       IN  /\ documents' = docs
           /\ fst' = built.fst
           /\ bitmaps' = built.bitmaps
    /\ pc' = "idle"
    /\ UNCHANGED <<overflow_checks, input, limit, rules, candidates, ranking_rules,
                   current_ranking_rule, res, ret, stages_ran>>

\* Index::search, lib.rs 56-64: no surviving query word.
SearchNoCandidates(text, lim, rs, cands) ==
    /\ pc = "idle"
    /\ Len(cands) = 0
    /\ input' = text /\ limit' = lim /\ rules' = rs
    /\ ret' = <<>>
    /\ pc' = "done"
    /\ UNCHANGED <<overflow_checks, documents, fst, bitmaps, candidates,
                   ranking_rules, current_ranking_rule, res, stages_ran>>

\* Index::search, lib.rs 56-79: up to the first test of the loop.
SearchStart(text, lim, rs, cands) ==
    /\ pc = "idle"
    /\ Len(cands) # 0
    /\ SetLocals(EnterLoop(cands, rs))
    /\ input' = text /\ limit' = lim /\ rules' = rs
    /\ pc' = "loop"
    /\ UNCHANGED <<overflow_checks, documents, fst, bitmaps, ret, stages_ran>>

\* A call of Index::search on the index, with any arguments.
CallSearchNoCandidates ==
    /\ pc = "idle"
    /\ \E text \in QueryPool :
          LET cands == get_candidates(fst, bitmaps, text)
          IN  /\ Len(cands) = 0
              /\ \E lim \in 0..MaxLimit, rs \in RuleLists :
                    SearchNoCandidates(text, lim, rs, cands)

CallSearchStart ==
    /\ pc = "idle"
    /\ \E text \in QueryPool :
          LET cands == get_candidates(fst, bitmaps, text)
          IN  /\ Len(cands) # 0
              /\ \E lim \in 0..MaxLimit, rs \in RuleLists :
                    SearchStart(text, lim, rs, cands)

\* The call is over (returned or unwound): its locals are dropped and the
\* index is ready for the next call.
EndCall ==
    /\ pc \in {"done", "panicked"}
    /\ input' = <<>> /\ limit' = 0 /\ rules' = <<>>
    /\ SetLocals(EnterLoop(<<>>, <<>>))
    /\ ret' = <<>>
    /\ stages_ran' = FALSE
    /\ pc' = "idle"
    /\ UNCHANGED <<overflow_checks, documents, fst, bitmaps>>

\* lib.rs 97, 133-140: the loop test fails; flatten, truncate, return.
Return ==
    /\ pc = "loop"
    /\ BucketsSize(res) >= limit
    /\ ret' = Collect(res, limit, documents)
    /\ pc' = "done"
    /\ UNCHANGED <<overflow_checks, documents, fst, bitmaps, input, limit, rules,
                   candidates, ranking_rules, current_ranking_rule, res, stages_ran>>

InLoop == pc = "loop" /\ BucketsSize(res) < limit

Panic ==
    /\ pc' = "panicked"
    /\ UNCHANGED <<overflow_checks, documents, fst, bitmaps, input, limit, rules,
                   candidates, ranking_rules, current_ranking_rule, res, ret,
                   stages_ran>>

\* lib.rs 85: indexing an empty list of stages panics.
PanicIndex ==
    /\ InLoop
    /\ IndexOutOfBounds(Locals)
    /\ Panic

\* lib.rs 89: with overflow checks, 0 - 1 panics.
PanicOverflow ==
    /\ InLoop
    /\ ~IndexOutOfBounds(Locals)
    /\ SubOverflows(Locals) /\ overflow_checks
    /\ Panic

CanCallNext ==
    /\ InLoop
    /\ ~IndexOutOfBounds(Locals)
    /\ ~(SubOverflows(Locals) /\ overflow_checks)

\* lib.rs 98-130: the outcome of next!() in an iteration that does not panic.
ThisOut == NextOut(Locals)

Iterate(arm, s) ==
    /\ CanCallNext
    /\ Arm(Locals, ThisOut) = arm
    /\ SetLocals(s)
    /\ stages_ran' = TRUE
    /\ UNCHANGED <<overflow_checks, documents, fst, bitmaps, input, limit, rules,
                   ret, pc>>

\* lib.rs 103-109
StepContinueFinest == Iterate("continue_finest", ContinueFinest(Locals, ThisOut))

\* lib.rs 110-113
StepContinueAdvance == Iterate("continue_advance", ContinueAdvance(Locals, ThisOut))

\* lib.rs 116, 121-122
StepBreakEmptyBack == Iterate("break_back", BreakEmptyBack(Locals, ThisOut))

\* lib.rs 125-129
StepBreakBucket == Iterate("break_bucket", BreakBucket(Locals, ThisOut))

\* lib.rs 116-120, 133-140: break out of the loop and return.
StepBreakEmptyStop ==
    /\ CanCallNext
    /\ Arm(Locals, ThisOut) = "break_stop"
    /\ SetLocals(BreakEmptyStop(Locals, ThisOut))
    /\ stages_ran' = TRUE
    /\ ret' = Collect(res, limit, documents)
    /\ pc' = "done"
    /\ UNCHANGED <<overflow_checks, documents, fst, bitmaps, input, limit, rules>>

\* Index::construct on any corpus.
ConstructIndex == pc = "new" /\ \E docs \in Corpora : Construct(docs)

Next ==
    \/ ConstructIndex
    \/ CallSearchNoCandidates
    \/ CallSearchStart
    \/ EndCall
    \/ Return
    \/ PanicIndex
    \/ PanicOverflow
    \/ StepContinueFinest
    \/ StepContinueAdvance
    \/ StepBreakEmptyBack
    \/ StepBreakBucket
    \/ StepBreakEmptyStop

Spec == Init /\ [][Next]_vars

\* The loop of a running call is not left waiting: search() runs to its end
\* on the calling thread.
LoopStep ==
    \/ Return
    \/ PanicIndex
    \/ PanicOverflow
    \/ StepContinueFinest
    \/ StepContinueAdvance
    \/ StepBreakEmptyBack
    \/ StepBreakBucket
    \/ StepBreakEmptyStop

FairSpec == Spec /\ WF_vars(LoopStep)

-----------------------------------------------------------------------------
(* The index and the candidates on their own: Index::construct on a corpus  *)
(* and Index::get_candidates on a query, over words long enough for every   *)
(* typo budget from 0 to 3.                                                 *)

\* "abd abcd", "ad acb abcde", "abcdeabcd", "abcdeabc ab", " ", "ab !"
WordDocPool ==
    { <<"a", "b", "d", " ", "a", "b", "c", "d">>,
      <<"a", "d", " ", "a", "c", "b", " ", "a", "b", "c", "d", "e">>,
      <<"a", "b", "c", "d", "e", "a", "b", "c", "d">>,
      <<"a", "b", "c", "d", "e", "a", "b", "c", " ", "a", "b">>,
      <<" ">>,
      <<"a", "b", " ", "!">> }

\* "abc e", "abcdea e", "abcdeabcdeab e", "ab ab", "e abc"
WordQueryPool ==
    { <<"a", "b", "c", " ", "e">>,
      <<"a", "b", "c", "d", "e", "a", " ", "e">>,
      <<"a", "b", "c", "d", "e", "a", "b", "c", "d", "e", "a", "b", " ", "e">>,
      <<"a", "b", " ", "a", "b">>,
      <<"e", " ", "a", "b", "c">> }

WordCorpora == SeqsUpTo(WordDocPool, MaxDocs)

\* Index::construct on any corpus of these documents.
ConstructWords == pc = "new" /\ \E docs \in WordCorpora : Construct(docs)

\* Index::get_candidates (lib.rs 151-191) on any of these queries.
GetCandidates ==
    /\ pc = "idle"
    /\ \E text \in WordQueryPool :
          /\ input' = text
          /\ candidates' = get_candidates(fst, bitmaps, text)
    /\ pc' = "candidates"
    /\ UNCHANGED <<overflow_checks, documents, fst, bitmaps, limit, rules,
                   ranking_rules, current_ranking_rule, res, ret, stages_ran>>

IndexNext ==
    \/ ConstructWords
    \/ GetCandidates

IndexSpec == Init /\ [][IndexNext]_vars

-----------------------------------------------------------------------------
(* Vocabulary of the properties. *)

RetIds == [i \in 1..Len(ret) |-> ret[i].id]

\* The candidates of the running call as get_candidates returned them.
InitialCandidates == get_candidates(fst, bitmaps, input)

\* The whitespace-separated tokens of a text.
Tokens(text) == Range(split_whitespace(text))

InCall == pc \in {"loop", "done", "panicked"}

\* The number of leading query words a document matches.
Level(cands, d) ==
    Cardinality({k \in 1..Len(cands) : \A c \in 1..k : d \in AllTypos(cands[c])})

-----------------------------------------------------------------------------
(* Properties. *)

\* C1: the buckets the driver loop has emitted are pairwise disjoint, and the
\* list search() returns holds each document id at most once.
C1_BucketsDisjoint ==
    /\ \A i, j \in 1..Len(res) : i < j => res[i] \cap res[j] = {}
    /\ pc = "done" => \A i, j \in 1..Len(ret) : i < j => ret[i].id # ret[j].id

C1_Witness ==
    /\ pc = "done"
    /\ Len(ret) >= 2
    /\ Cardinality({i \in 1..Len(res) : res[i] # {}}) >= 2

\* C2: once a bucket has been cleaned up and pushed, none of its ids is in any
\* distance bitmap of any candidate, in this and every later state of the
\* call, and no bucket pushed after it holds any of its ids.
C2_CleanedNeverResurface ==
    \A i \in 1..Len(res) :
        /\ \A c \in 1..Len(candidates), d \in 1..4 :
              candidates[c].typos[d] \cap res[i] = {}
        /\ \A j \in (i + 1)..Len(res) : res[j] \cap res[i] = {}

C2_Witness ==
    /\ pc = "loop"
    /\ \E i \in 1..Len(res) :
          /\ res[i] # {}
          /\ \E c \in 1..Len(InitialCandidates) :
                res[i] \cap InitialCandidates[c].typos[2] # {}
          /\ Len(res) > i
    /\ AllCandidates(candidates) # {}

\* C3: the list search() returns is never longer than the limit, also when
\* the buckets together hold more than the limit.
C3_LengthAtMostLimit == pc = "done" => Len(ret) <= limit

C3_Witness ==
    /\ pc = "done"
    /\ limit > 0
    /\ BucketsSize(res) > limit
    /\ Len(ret) = limit

\* C4: the list returned for limit L is a prefix of the list the same call
\* returns for limit L + k; for a positive L the larger call returns too.
C4_PrefixOfLargerLimit ==
    pc = "done" =>
        \A k \in 0..MaxExtra :
            LET larger == RunSearch(input, limit + k, rules, overflow_checks)
            IN  /\ larger.pc # "loop"
                /\ limit > 0 => larger.pc = "done"
                /\ larger.pc = "done" => IsPrefixOf(ret, larger.ret)

C4_Witness ==
    /\ pc = "done"
    /\ limit > 0
    /\ Len(res) >= 1
    /\ LET larger == RunSearch(input, limit + 1, rules, overflow_checks)
       IN  /\ larger.pc = "done"
           /\ Len(larger.ret) = limit + 1
           /\ Len(ret) = limit

\* C5: a call with a positive limit and a non-empty rule list leaves the loop
\* through one of its two exits, the accumulated size reaching the limit or
\* the stage at cursor 0 yielding an empty bucket, and through nothing else.
C5_HaltsByLimitOrExhaustion ==
    (InCall /\ limit > 0 /\ rules # <<>>) =>
        /\ pc # "panicked"
        /\ (pc = "done" /\ stages_ran) =>
              (BucketsSize(res) >= limit \/ current_ranking_rule = 0)

\* C5, the part that holds: whatever the build, a running loop comes to an
\* end, returning or panicking; it does not iterate forever.
C5_LoopEnds == (pc = "loop") ~> (pc \in {"done", "panicked"})

\* C6: a call with an empty rule list and a surviving query word raises no
\* error and returns the union of all distance bitmaps of all candidates, in
\* id order, truncated to the limit.
C6_EmptyRulesOneBucket ==
    (pc \in {"done", "panicked"} /\ rules = <<>> /\ Len(InitialCandidates) > 0) =>
        /\ pc = "done"
        /\ RetIds = Take(Ascending(AllCandidates(InitialCandidates)), limit)

\* C7: a call whose query has no token, or only tokens that normalize to
\* nothing, returns the empty list, without a panic and without a single
\* next!() on any stage.
C7_EmptyQueryReturnsEmpty ==
    (InCall /\ \A t \in Tokens(input) : normalize(t) = <<>>) =>
        /\ pc = "done"
        /\ ret = <<>>
        /\ res = <<>>
        /\ ~stages_ran

C7_Witness ==
    /\ pc = "done"
    /\ Tokens(input) # {}
    /\ \A t \in Tokens(input) : normalize(t) = <<>>
    /\ documents # <<>>
    /\ rules # <<>>
    /\ limit > 0

\* The documents holding the single token of the query as one of their own.
HoldersOfQueryToken ==
    {id \in 0..(Len(documents) - 1) :
        split_whitespace(input)[1] \in Tokens(documents[id + 1])}

\* C8 as stated: for a single-word query equal to a word of some document,
\* the returned list holds that document, whatever the (positive) limit.
C8_ExactWordAlwaysReturned ==
    (/\ pc = "done"
     /\ limit > 0
     /\ Len(split_whitespace(input)) = 1
     /\ normalize(split_whitespace(input)[1]) # <<>>) =>
        HoldersOfQueryToken \subseteq Range(RetIds)

\* C8 as amended: the same, for a limit that is at least the number of
\* documents the word's candidate holds in its distance bitmaps.
C8_ExactWordReturnedWithinLimit ==
    (/\ pc = "done"
     /\ Len(split_whitespace(input)) = 1
     /\ normalize(split_whitespace(input)[1]) # <<>>
     /\ limit >= Cardinality(AllCandidates(InitialCandidates))) =>
        HoldersOfQueryToken \subseteq Range(RetIds)

C8_Witness ==
    /\ pc = "done"
    /\ Len(split_whitespace(input)) = 1
    /\ normalize(split_whitespace(input)[1]) # <<>>
    /\ limit >= Cardinality(AllCandidates(InitialCandidates))
    /\ Cardinality(HoldersOfQueryToken) >= 1
    /\ Cardinality(AllCandidates(InitialCandidates)) >= 2
    /\ Len(rules) >= 2

\* C9: with stages = [Word] and two or more surviving query words, every
\* returned document matches the first word, and a document matching more
\* leading query words is never returned after one matching fewer.
C9_RelaxationOrder ==
    (pc = "done" /\ rules = <<Word>> /\ Len(InitialCandidates) >= 2) =>
        /\ \A i \in 1..Len(ret) : Level(InitialCandidates, ret[i].id) >= 1
        /\ \A i, j \in 1..Len(ret) :
              i < j => Level(InitialCandidates, ret[i].id)
                          >= Level(InitialCandidates, ret[j].id)

C9_Witness ==
    /\ pc = "done"
    /\ rules = <<Word>>
    /\ Len(InitialCandidates) >= 3
    /\ Len(ret) = 2
    /\ Level(InitialCandidates, ret[1].id) = 2
    /\ Level(InitialCandidates, ret[2].id) = 1

\* C10: the four distance bitmaps of every candidate are pairwise disjoint.
C10_TyposDisjoint ==
    \A c \in 1..Len(candidates) :
        \A i, j \in 1..4 :
            i < j => candidates[c].typos[i] \cap candidates[c].typos[j] = {}

\* The ids of the documents of the index.
DocumentIds == 0..(Len(documents) - 1)

\* The normalized words of a document, from its text.
WordsOfDocument(id) == {normalize(t) : t \in Tokens(documents[id + 1])}

\* Plain edit distance: insertions, deletions and substitutions.
Levenshtein(a, b) == EditDistance(a, b, FALSE)

\* C11: a query word of normalized length n that is not the last one holds
\* exactly the documents with a word within edit distance min(3, n / 3) of
\* it: a word at that distance is matched, a word one further is not.
C11_TypoBoundary ==
    pc = "candidates" =>
        \A c \in 1..(Len(candidates) - 1) :
            LET q     == candidates[c].normalized
                bound == Min(3, Len(q) \div 3)
            IN  AllTypos(candidates[c]) =
                    {id \in DocumentIds :
                        \E w \in WordsOfDocument(id) : Levenshtein(q, w) <= bound}

C11_Witness ==
    /\ pc = "candidates"
    /\ Len(candidates) >= 2
    /\ Len(candidates[1].normalized) \div 3 > 3
    /\ \E id \in AllTypos(candidates[1]) :
          \A w \in WordsOfDocument(id) : Levenshtein(candidates[1].normalized, w) >= 3
    /\ \E id \in DocumentIds \ AllTypos(candidates[1]) :
          \E w \in WordsOfDocument(id) : Levenshtein(candidates[1].normalized, w) = 4

\* C12: the last query word holds exactly the documents with a word one of
\* whose prefixes is within the typo budget of it; a word that is not the
\* last one holds no document whose words merely start with it.
C12_PrefixOnlyForLastWord ==
    pc = "candidates" =>
        \A c \in 1..Len(candidates) :
            LET q == candidates[c].normalized
                Within(w) == Levenshtein(q, w) <= TypoBudget(q)
                FuzzyPrefix(w) == \E n \in 0..Len(w) : Within(SubSeq(w, 1, n))
            IN  \A id \in DocumentIds :
                    IF c = Len(candidates)
                    THEN id \in AllTypos(candidates[c])
                            <=> \E w \in WordsOfDocument(id) : FuzzyPrefix(w)
                    ELSE (/\ \E w \in WordsOfDocument(id) : IsPrefixOf(q, w)
                          /\ \A w \in WordsOfDocument(id) : ~Within(w))
                            => id \notin AllTypos(candidates[c])

C12_Witness ==
    /\ pc = "candidates"
    /\ Len(candidates) = 2
    /\ candidates[1].normalized = candidates[2].normalized
    /\ \E id \in DocumentIds :
          /\ \E w \in WordsOfDocument(id) : IsPrefixOf(candidates[1].normalized, w)
          /\ \A w \in WordsOfDocument(id) :
                Levenshtein(candidates[1].normalized, w)
                    > TypoBudget(candidates[1].normalized)
          /\ id \notin AllTypos(candidates[1])
          /\ id \in AllTypos(candidates[2])

\* C13: after construct the map has one entry per distinct normalized word
\* of the corpus, in increasing word order with bucket ids 0..N-1 in that
\* order, and the bitmap of a word is the set of the documents holding it.
C13_IndexIsExact ==
    pc # "new" =>
        LET words == UNION {WordsOfDocument(id) : id \in DocumentIds}
        IN  /\ Len(fst) = Cardinality(words)
            /\ {fst[k].word : k \in 1..Len(fst)} = words
            /\ \A k \in 1..Len(fst) : fst[k].id = k - 1
            /\ \A k \in 1..(Len(fst) - 1) : StrLess(fst[k].word, fst[k + 1].word)
            /\ Len(bitmaps) = Len(fst)
            /\ \A k \in 1..Len(fst) :
                  bitmaps[fst[k].id + 1] =
                      {id \in DocumentIds : fst[k].word \in WordsOfDocument(id)}

C13_Witness ==
    /\ pc = "idle"
    /\ Len(documents) = 2
    /\ documents[1] # documents[2]
    /\ Len(fst) >= 3
    /\ \E k \in 1..Len(fst) : fst[k].word = <<>>
    /\ \E k \in 1..Len(fst) : bitmaps[fst[k].id + 1] = {0, 1}

\* C14: a call with a non-empty rule list never fails: the cursor of a
\* running loop is the index of a stage, and computing the coarser stage of
\* next!() does not fail on the unsigned subtraction.
C14_SearchNeverFails ==
    (InCall /\ rules # <<>>) =>
        /\ pc # "panicked"
        /\ pc = "loop" => current_ranking_rule \in 0..(Len(ranking_rules) - 1)

\* C15: an iteration in which the stage at the cursor breaks with an empty
\* bucket, at cursor 0, ends the loop and pushes nothing; at any other
\* cursor it moves the cursor one stage back and pushes the empty bucket,
\* and leaves the candidates and the other stages as they were.
C15_EmptyBucketStep ==
    [][(CanCallNext /\ ThisOut.flow = "break" /\ ThisOut.bucket = {}) =>
          IF current_ranking_rule = 0
          THEN /\ pc' = "done"
               /\ res' = res
               /\ candidates' = candidates
          ELSE /\ pc' = "loop"
               /\ current_ranking_rule' = current_ranking_rule - 1
               /\ res' = Append(res, {})
               /\ candidates' = candidates
               /\ ranking_rules' =
                     [ranking_rules EXCEPT ![current_ranking_rule + 1] = ThisOut.stage]
      ]_vars

C15_Witness ==
    /\ pc = "loop"
    /\ Len(res) >= 2
    /\ res[Len(res)] = {}
    /\ current_ranking_rule < Len(ranking_rules) - 1
    /\ AllCandidates(candidates) # {}

\* C16: an iteration in which the stage at the cursor breaks with a bucket
\* that is not empty subtracts it from every distance bitmap of every
\* candidate, leaves none of its ids in any stage, pushes it and keeps the
\* cursor; an iteration in which a stage other than the last continues moves
\* the cursor one stage forward and changes neither res nor the candidates.
C16_BucketAndAdvanceSteps ==
    [][/\ (CanCallNext /\ ThisOut.flow = "break" /\ ThisOut.bucket # {}) =>
             /\ res' = Append(res, ThisOut.bucket)
             /\ current_ranking_rule' = current_ranking_rule
             /\ Len(candidates') = Len(candidates)
             /\ \A c \in 1..Len(candidates), d \in 1..4 :
                   candidates'[c].typos[d] = candidates[c].typos[d] \ ThisOut.bucket
             /\ Len(ranking_rules') = Len(ranking_rules)
             /\ \A i \in 1..Len(ranking_rules) :
                   /\ ranking_rules'[i].universe \cap ThisOut.bucket = {}
                   /\ ranking_rules'[i].exact \cap ThisOut.bucket = {}
       /\ (/\ CanCallNext
           /\ ThisOut.flow = "continue"
           /\ current_ranking_rule # Len(ranking_rules) - 1) =>
             /\ current_ranking_rule' = current_ranking_rule + 1
             /\ res' = res
             /\ candidates' = candidates
      ]_vars

C16_Witness ==
    /\ pc = "loop"
    /\ Len(ranking_rules) >= 2
    /\ current_ranking_rule >= 1
    /\ Len(res) >= 1
    /\ res[Len(res)] # {}
    /\ \E c \in 1..Len(InitialCandidates), d \in 1..4 :
          /\ res[Len(res)] \cap InitialCandidates[c].typos[d] # {}
          /\ InitialCandidates[c].typos[d] \ UnionSeq(res) # {}

\* The position in res of the bucket that holds a document id.
BucketOf(id) == CHOOSE b \in 1..Len(res) : id \in res[b]

\* Is x before y in the order of emission: an earlier bucket, or the same
\* bucket and a smaller id.
EmittedBefore(x, y) ==
    \/ BucketOf(x) < BucketOf(y)
    \/ BucketOf(x) = BucketOf(y) /\ x < y

\* C17: the returned list holds the first limit documents of the emitted
\* buckets, in emission order and in ascending id within a bucket, each with
\* its own text; with stages = [Word] and one query word these are all the
\* documents of the word, in corpus order.
C17_FlattenedInOrder ==
    pc = "done" =>
        /\ Len(ret) = Min(limit, BucketsSize(res))
        /\ \A i \in 1..Len(ret) :
              /\ ret[i].id \in UnionSeq(res)
              /\ ret[i].text = documents[ret[i].id + 1]
              /\ \A x \in UnionSeq(res) :
                    EmittedBefore(x, ret[i].id) => x \in Range(RetIds)
        /\ \A i, j \in 1..Len(ret) : i < j => EmittedBefore(ret[i].id, ret[j].id)
        /\ (rules = <<Word>> /\ Len(InitialCandidates) = 1) =>
              RetIds = Take(Ascending(AllTypos(InitialCandidates[1])), limit)

C17_Witness ==
    /\ pc = "done"
    /\ Len(ret) = 2
    /\ ret[1].id > ret[2].id
    /\ BucketsSize(res) >= 2

\* The normalized surviving words of the query of the call.
QueryWord(c) == QueryWords(input)[c][2]

\* A document holds a word within the typo budget of q.
MatchesWithin(id, q) ==
    \E w \in WordsOfDocument(id) : Levenshtein(q, w) <= TypoBudget(q)

\* A document holds a word one of whose prefixes is within the budget of q.
MatchesByPrefix(id, q) ==
    \E w \in WordsOfDocument(id) :
        \E n \in 0..Len(w) : Levenshtein(q, SubSeq(w, 1, n)) <= TypoBudget(q)

\* C18: the candidates of a call are what get_candidates returns when the
\* call starts, and every later step of the call only subtracts the buckets
\* pushed: the index is not queried again.  With stages = [Word] and
\* several query words, a document whose words only start with the first
\* query word is not returned when the query is relaxed down to that word.
C18_CandidatesComputedOnce ==
    /\ [][/\ (pc = "idle" /\ pc' = "loop") =>
                candidates' = get_candidates(fst, bitmaps, input')
          /\ pc = "loop" => candidates' = cleanup(UnionSeq(res'), candidates)
         ]_vars
    /\ []((pc = "done" /\ rules = <<Word>> /\ Len(candidates) >= 2) =>
            \A i \in 1..Len(ret) :
                ~(/\ MatchesByPrefix(ret[i].id, QueryWord(1))
                  /\ ~MatchesWithin(ret[i].id, QueryWord(1))))

C18_Witness ==
    /\ pc = "done"
    /\ rules = <<Word>>
    /\ Len(InitialCandidates) >= 2
    /\ Len(res) >= 2
    /\ Len(ret) < limit
    /\ \E id \in DocumentIds \ Range(RetIds) :
          /\ \E w \in WordsOfDocument(id) : IsPrefixOf(QueryWord(1), w)
          /\ ~MatchesWithin(id, QueryWord(1))

\* C19: with stages = [Word] every returned document matches the first
\* surviving query word; a document matching only later words is not
\* returned, also when the call returns fewer documents than the limit.
C19_FirstWordAlwaysMatched ==
    (pc = "done" /\ rules = <<Word>>) =>
        \A i \in 1..Len(ret) :
            IF Len(QueryWords(input)) = 1
            THEN MatchesByPrefix(ret[i].id, QueryWord(1))
            ELSE MatchesWithin(ret[i].id, QueryWord(1))

C19_Witness ==
    /\ pc = "done"
    /\ rules = <<Word>>
    /\ Len(QueryWords(input)) >= 2
    /\ Len(ret) >= 1
    /\ Len(ret) < limit
    /\ \E id \in DocumentIds \ Range(RetIds) :
          /\ MatchesByPrefix(id, QueryWord(Len(QueryWords(input))))
          /\ ~MatchesWithin(id, QueryWord(1))

=============================================================================
